---- MODULE Spec2Model ----
(***************************************************************************)
(* WebVerse lab runtime orchestrator: AppState (gui/app_state.py) and the  *)
(* start/stop/reset handlers of LabDetailView (gui/views/lab_detail.py).   *)
(*                                                                         *)
(* All handlers and all completion callbacks run on the single Qt GUI      *)
(* thread, so each of them is one atomic action.  The only concurrency is  *)
(* the worker QThread that executes a docker compose command; its result   *)
(* comes back as the queued `finished` signal.                             *)
(***************************************************************************)
EXTENDS Integers, FiniteSets, Sequences, TLC

\* ---------------------------------------------------------------- bounds
NumLabs == 2

\* Lab ids are 1..NumLabs; NoLab stands for None / "" (no lab).
NoLab == 0
Labs == 1..NumLabs
LabOrNone == Labs \cup {NoLab}

Ops == {"starting", "stopping", "resetting", "running", "stopped"}
Transient == {"starting", "stopping", "resetting"}

\* docker_ops functions handed to _run_docker
Fns == {"compose_up", "compose_down", "compose_reset", "compose_logs"}

VARIABLES
    running_lab,        \* core.runtime: persisted runtime lock (get/set_running_lab)
    running_lab_id,     \* AppState._running_lab_id
    runtime_op,         \* AppState._runtime_op
    runtime_op_lab_id,  \* AppState._runtime_op_lab_id
    view_lab,           \* LabDetailView._lab
    conn_state,         \* ConnBar._state (decides which buttons are enabled)
    thread,             \* LabDetailView._thread: <<>> or <<worker>>
    workers,            \* worker threads started and not yet finished
    started_events,     \* lab_started events sent per lab since its last accepted start/reset
    last_event,         \* the last handler that ran and what it reported
    constructed,        \* AppState.__init__ has run
    emitted             \* running_changed / runtime_op_changed signals emitted by the last handler

vars == <<running_lab, running_lab_id, runtime_op, runtime_op_lab_id,
          view_lab, conn_state, thread, workers, started_events, last_event,
          constructed, emitted>>

\* State of the progress store, its cache and the account (core/progress_db.py,
\* the progress part of AppState).  The lab runtime never touches it.
VARIABLES
    now,                \* time.monotonic(), in seconds
    cache,              \* progress_db._cache
    settings,           \* QSettings("WebVerse"): auth/access_token, auth/username
    server,             \* the remote authority: device linkage, version of the stored progress
    app_cache,          \* AppState._progress_cache/_progress_dirty, _summary_*, _notes_cache
    poller,             \* the convergence poller thread, if one is running
    last_call           \* the last progress_db / AppState call and what it did

sync_vars == <<now, cache, settings, server, app_cache, poller, last_call>>

\* The local sqlite database ~/.webverse/progress.db and the calls of
\* get_device_id() under way.
VARIABLE device

\* The part of the state the sequential code of one handler threads through.
StateRec(lock, rid, op, oplab, conn, ev) ==
    [running_lab |-> lock, running_lab_id |-> rid, runtime_op |-> op,
     runtime_op_lab_id |-> oplab, conn_state |-> conn, started_events |-> ev,
     emitted |-> <<>>]

Cur == StateRec(running_lab, running_lab_id, runtime_op, runtime_op_lab_id,
                conn_state, started_events)

\* One emitted Qt signal: running_changed(lab) or runtime_op_changed(lab, op).
Signal(name, lab, op) == [sig |-> name, lab |-> lab, op |-> op]

\* pyqtSignal.emit
emit(s, signal) == [s EXCEPT !.emitted = Append(@, signal)]

\* ------------------------------------------------------------ core.runtime

\* get_running_lab(): the persisted lock
get_running_lab(s) == s.running_lab

\* set_running_lab(lab_id): persist the lock
set_running_lab(s, lab_id) == [s EXCEPT !.running_lab = lab_id]

\* ------------------------------------------------------------- AppState

\* Mutant: set_runtime_op stores the op and forgets the lab it belongs to.
set_runtime_op_drops_lab(s, op0, lab_id) ==
    LET op == IF op0 \in Ops THEN op0 ELSE "stopped"
    IN emit([s EXCEPT !.runtime_op = op, !.runtime_op_lab_id = NoLab],
            Signal("runtime_op_changed", NoLab, op))

\* AppState.set_runtime_op(op, lab_id)
set_runtime_op(s, op0, lab_id) ==
    LET op == IF op0 \in Ops THEN op0 ELSE "stopped"
        cur_op == s.runtime_op
        cur_lid == s.runtime_op_lab_id
        guarded == /\ cur_op \in Transient
                   /\ cur_lid # NoLab
                   /\ \/ op \in Transient /\ lab_id # NoLab /\ lab_id # cur_lid
                      \/ op = "stopped" /\ lab_id # NoLab /\ lab_id # cur_lid
        new_lid == IF lab_id # NoLab /\ op # "stopped" THEN lab_id ELSE NoLab
    IN IF guarded THEN s
       ELSE emit([s EXCEPT !.runtime_op = op, !.runtime_op_lab_id = new_lid],
                 Signal("runtime_op_changed", new_lid, op))

\* AppState.runtime_op_for(lab_id)
runtime_op_for(s, lab_id) ==
    IF lab_id # NoLab /\ s.runtime_op_lab_id # NoLab
          /\ lab_id = s.runtime_op_lab_id /\ s.runtime_op \in Transient
    THEN s.runtime_op
    ELSE IF lab_id # NoLab /\ s.running_lab_id # NoLab /\ lab_id = s.running_lab_id
    THEN "running"
    ELSE "stopped"

\* progress_db.mark_started(lab_id): one lab_started event
mark_started(s, lab_id) ==
    [s EXCEPT !.started_events[lab_id] = @ + 1]

\* AppState.set_running_lab_id(lab_id)
set_running_lab_id(s, lab_id) ==
    IF lab_id = s.running_lab_id THEN s
    ELSE
      LET s1 == set_running_lab([s EXCEPT !.running_lab_id = lab_id], lab_id)
          cur_op == s1.runtime_op
          cur_lid == s1.runtime_op_lab_id
          s2 == IF lab_id # NoLab
                THEN IF cur_op \in {"starting", "resetting"}
                          /\ (cur_lid = NoLab \/ cur_lid = lab_id)
                     THEN set_runtime_op(s1, "running", lab_id)
                     ELSE IF cur_op \notin Transient
                     THEN set_runtime_op(s1, "running", lab_id)
                     ELSE s1
                ELSE IF cur_op \in {"stopping", "resetting"}
                     THEN set_runtime_op(s1, "stopped", NoLab)
                     ELSE IF cur_op \notin Transient
                     THEN set_runtime_op(s1, "stopped", NoLab)
                     ELSE s1
          s3 == IF lab_id # NoLab THEN mark_started(s2, lab_id) ELSE s2
      IN emit(s3, Signal("running_changed", lab_id, "none"))

\* Mutant: start-up trusts the persisted lock as proof that the lab is running.
verify_runtime_running_lab_trusts_lock(s, docker_ok, compose_ok, labs, containers) == s

\* AppState._verify_runtime_running_lab.  docker_ok and compose_ok are the
\* answers of docker_available() and compose_v2_available(), labs the ids of the
\* discovered labs, containers the labs compose_has_running() reports as running.
verify_runtime_running_lab(s, docker_ok, compose_ok, labs, containers) ==
    LET clear == emit(set_running_lab([s EXCEPT !.running_lab_id = NoLab], NoLab),
                      Signal("running_changed", NoLab, "none"))
    IN IF s.running_lab_id = NoLab THEN s
       ELSE IF ~(docker_ok /\ compose_ok) THEN s
       ELSE IF s.running_lab_id \notin labs THEN clear
       ELSE IF s.running_lab_id \notin containers THEN clear
       ELSE s

\* AppState.__init__: read the lock, op "stopped" with no lab, then verify.
app_init(s, docker_ok, compose_ok, labs, containers) ==
    verify_runtime_running_lab(
        [s EXCEPT !.running_lab_id = get_running_lab(s),
                  !.runtime_op = "stopped",
                  !.runtime_op_lab_id = NoLab],
        docker_ok, compose_ok, labs, containers)

\* -------------------------------------------------------- LabDetailView

\* LabDetailView._set_op_state(state, lab_id, broadcast=...)
set_op_state(s, cur_id, state, lab_id, broadcast) ==
    LET target_id == IF lab_id # NoLab THEN lab_id ELSE cur_id
        s1 == IF cur_id # NoLab /\ target_id # NoLab /\ cur_id = target_id
              THEN [s EXCEPT !.conn_state = state]
              ELSE s
    IN IF broadcast THEN set_runtime_op(s1, state, target_id) ELSE s1

\* Mutant: the Stop button is left enabled in every state.
btn_stop_always_enabled(state) == TRUE

\* ConnBar._apply_state: which buttons a state leaves enabled
btn_start_enabled(state) == state \notin (Transient \cup {"running"})
btn_stop_enabled(state) == state = "running"
btn_reset_enabled(state) == state = "running"

Worker(fn, lab) == [fn |-> fn, lab |-> lab]
Event(h, lab, res) == [h |-> h, lab |-> lab, res |-> res]

\* Writes every field of the handler's resulting state back.
Commit(s) ==
    /\ running_lab' = s.running_lab
    /\ running_lab_id' = s.running_lab_id
    /\ runtime_op' = s.runtime_op
    /\ runtime_op_lab_id' = s.runtime_op_lab_id
    /\ conn_state' = s.conn_state
    /\ started_events' = s.started_events
    /\ emitted' = s.emitted

\* Mutant: _run_docker without its busy check.
run_docker_always_launches == TRUE

\* LabDetailView._run_docker: busy check, then start one worker thread.
\* TRUE iff the worker was launched.
run_docker_launches == thread = <<>>

RunDocker(fn, lab) ==
    IF run_docker_launches
    THEN /\ thread' = <<Worker(fn, lab)>>
         /\ workers' = workers \cup {Worker(fn, lab)}
    ELSE UNCHANGED <<thread, workers>>

\* Process start: AppState() is constructed once, before any view exists.
\* last_event keeps the lab the lock named when the process started.
AppInit(docker_ok, compose_ok, labs, containers) ==
    /\ ~constructed
    /\ constructed' = TRUE
    /\ Commit(app_init(Cur, docker_ok, compose_ok, labs, containers))
    /\ last_event' = Event("init", running_lab,
           IF running_lab = NoLab THEN "no_lock"
           ELSE IF app_init(Cur, docker_ok, compose_ok, labs, containers).running_lab = NoLab
           THEN "cleared" ELSE "kept")
    /\ UNCHANGED <<view_lab, thread, workers>>
    /\ UNCHANGED <<sync_vars, device>>

\* Mutant: set_lab pushes the opened lab's state to AppState (broadcast=True).
SetLab_broadcasts(lab) ==
    /\ constructed
    /\ view_lab' = lab
    /\ Commit(set_op_state(Cur, lab, runtime_op_for(Cur, lab), lab, TRUE))
    /\ last_event' = Event("set_lab", lab, "shown")
    /\ UNCHANGED <<thread, workers, constructed>>
    /\ UNCHANGED <<sync_vars, device>>

\* LabDetailView.set_lab(lab), reached through MainWindow.navigate
SetLab(lab) ==
    /\ constructed
    /\ view_lab' = lab
    /\ Commit(set_op_state(Cur, lab, runtime_op_for(Cur, lab), lab, FALSE))
    /\ last_event' = Event("set_lab", lab, "shown")
    /\ UNCHANGED <<thread, workers, constructed>>
    /\ UNCHANGED <<sync_vars, device>>

\* Mutant: _on_start without the "one lab at a time" check of the persisted lock.
start_check_no_lock(s, lab, ports_ok) ==
    LET busy_id == s.runtime_op_lab_id
        busy_op == IF busy_id # NoLab THEN runtime_op_for(s, busy_id) ELSE "none"
    IN IF busy_id # NoLab /\ busy_id # lab /\ busy_op \in Transient
       THEN "another_lab_busy"
       ELSE IF busy_id # NoLab /\ busy_id = lab /\ busy_op \in Transient
       THEN "in_progress"
       ELSE IF ~ports_ok
       THEN "port_in_use"
       ELSE "accepted"

\* Mutant: _on_start without the host-port pre-check.
start_check_no_ports(s, lab, ports_ok) ==
    LET busy_id == s.runtime_op_lab_id
        busy_op == IF busy_id # NoLab THEN runtime_op_for(s, busy_id) ELSE "none"
        running_id == get_running_lab(s)
    IN IF busy_id # NoLab /\ busy_id # lab /\ busy_op \in Transient
       THEN "another_lab_busy"
       ELSE IF busy_id # NoLab /\ busy_id = lab /\ busy_op \in Transient
       THEN "in_progress"
       ELSE IF running_id # NoLab /\ running_id # lab
       THEN "blocked"
       ELSE "accepted"

\* _on_start, the checks before anything is changed: the first rejection that
\* applies, or "accepted".  ports_ok is the outcome of the host-port pre-check.
start_check(s, lab, ports_ok) ==
    LET busy_id == s.runtime_op_lab_id
        busy_op == IF busy_id # NoLab THEN runtime_op_for(s, busy_id) ELSE "none"
        running_id == get_running_lab(s)
    IN IF busy_id # NoLab /\ busy_id # lab /\ busy_op \in Transient
       THEN "another_lab_busy"
       ELSE IF busy_id # NoLab /\ busy_id = lab /\ busy_op \in Transient
       THEN "in_progress"
       ELSE IF running_id # NoLab /\ running_id # lab
       THEN "blocked"
       ELSE IF ~ports_ok
       THEN "port_in_use"
       ELSE "accepted"

\* _on_start once the checks have passed: take the lock, go to "starting".
\* The count of lab_started events of the lab starts again with this bring-up.
start_begin(s, cur_id, lab) ==
    set_op_state(set_running_lab([s EXCEPT !.started_events[lab] = 0], lab),
                 cur_id, "starting", lab, TRUE)

\* _on_stop before _run_docker
stop_begin(s, cur_id, lab) ==
    set_op_state(s, cur_id, "stopping", lab, TRUE)

\* Mutant: reset written as a visible stop followed by a start, so the lock is
\* released while the environment is torn down.
reset_begin_releases_lock(s, cur_id, lab) ==
    set_op_state(set_running_lab([s EXCEPT !.started_events[lab] = 0], NoLab),
                 cur_id, "resetting", lab, TRUE)

\* _on_reset before _run_docker: keep the lock, go to "resetting".
\* The count of lab_started events of the lab starts again with this reset.
reset_begin(s, cur_id, lab) ==
    set_op_state(set_running_lab([s EXCEPT !.started_events[lab] = 0], lab),
                 cur_id, "resetting", lab, TRUE)

\* LabDetailView._on_start (the Start button)
OnStart(ports_ok) ==
    /\ view_lab # NoLab
    /\ btn_start_enabled(conn_state)
    /\ LET res == start_check(Cur, view_lab, ports_ok)
       IN IF res # "accepted"
          THEN /\ last_event' = Event("start", view_lab, res)
               /\ emitted' = <<>>
               /\ UNCHANGED <<running_lab, running_lab_id, runtime_op, runtime_op_lab_id,
                              conn_state, started_events, thread, workers>>
          ELSE /\ Commit(start_begin(Cur, view_lab, view_lab))
               /\ RunDocker("compose_up", view_lab)
               /\ last_event' = Event("start", view_lab,
                      IF run_docker_launches THEN "launched" ELSE "busy")
    /\ UNCHANGED <<view_lab, constructed>>
    /\ UNCHANGED <<sync_vars, device>>

\* LabDetailView._on_stop (the Stop button)
OnStop ==
    /\ view_lab # NoLab
    /\ btn_stop_enabled(conn_state)
    /\ Commit(stop_begin(Cur, view_lab, view_lab))
    /\ RunDocker("compose_down", view_lab)
    /\ last_event' = Event("stop", view_lab,
           IF run_docker_launches THEN "launched" ELSE "busy")
    /\ UNCHANGED <<view_lab, constructed>>
    /\ UNCHANGED <<sync_vars, device>>

\* LabDetailView._on_reset (the Reset button)
OnReset ==
    /\ view_lab # NoLab
    /\ btn_reset_enabled(conn_state)
    /\ Commit(reset_begin(Cur, view_lab, view_lab))
    /\ RunDocker("compose_reset", view_lab)
    /\ last_event' = Event("reset", view_lab,
           IF run_docker_launches THEN "launched" ELSE "busy")
    /\ UNCHANGED <<view_lab, constructed>>
    /\ UNCHANGED <<sync_vars, device>>

\* LabDetailView._on_refresh_logs
OnRefreshLogs ==
    /\ view_lab # NoLab
    /\ RunDocker("compose_logs", view_lab)
    /\ last_event' = Event("logs", view_lab,
           IF run_docker_launches THEN "launched" ELSE "busy")
    /\ emitted' = <<>>
    /\ UNCHANGED <<running_lab, running_lab_id, runtime_op, runtime_op_lab_id,
                   view_lab, conn_state, started_events, constructed>>
    /\ UNCHANGED <<sync_vars, device>>

\* _run_docker._finished, after on_done: the thread slot is released
Finished(w) ==
    /\ thread' = <<>>
    /\ workers' = workers \ {w}
    /\ UNCHANGED <<view_lab, constructed>>
    /\ UNCHANGED <<sync_vars, device>>

\* Mutant: a failed bring-up only resets the op and leaves the lock taken.
start_done_keeps_lock(s, cur_id, lab, ok) ==
    IF ok
    THEN set_op_state(set_running_lab_id(mark_started(s, lab), lab),
                      cur_id, "running", lab, TRUE)
    ELSE set_op_state(s, cur_id, "stopped", lab, TRUE)

\* Mutant: a successful bring-up does not record the start.
start_done_no_mark(s, cur_id, lab, ok) ==
    IF ok
    THEN set_op_state([s EXCEPT !.running_lab_id = lab], cur_id, "running", lab, TRUE)
    ELSE LET s1 == IF get_running_lab(s) = lab THEN set_running_lab(s, NoLab) ELSE s
         IN set_op_state(set_running_lab_id(s1, NoLab), cur_id, "stopped", lab, TRUE)

\* _on_start.done(ok, msg)
start_done(s, cur_id, lab, ok) ==
    IF ok
    THEN set_op_state(set_running_lab_id(mark_started(s, lab), lab),
                      cur_id, "running", lab, TRUE)
    ELSE LET s1 == IF get_running_lab(s) = lab THEN set_running_lab(s, NoLab) ELSE s
         IN set_op_state(set_running_lab_id(s1, NoLab), cur_id, "stopped", lab, TRUE)

\* Mutant: a successful tear-down resets the op but forgets the running lab.
stop_done_keeps_lock(s, cur_id, lab, ok) ==
    set_op_state(s, cur_id, "stopped", lab, TRUE)

\* _on_stop.done(ok, msg)
stop_done(s, cur_id, lab, ok) ==
    LET s1 == IF ok THEN set_running_lab_id(s, NoLab) ELSE s
    IN set_op_state(s1, cur_id, "stopped", lab, TRUE)

\* _on_reset.done(ok, msg)
reset_done(s, cur_id, lab, ok) ==
    IF ok
    THEN set_op_state(set_running_lab_id(set_running_lab(s, lab), lab),
                      cur_id, "running", lab, TRUE)
    ELSE set_op_state(set_running_lab_id(set_running_lab(s, NoLab), NoLab),
                      cur_id, "stopped", lab, TRUE)

\* The worker's finished(ok, msg) signal for a bring-up; a launch failure or a
\* timeout arrives as ok = FALSE (_DockerWorker.run).
StartDone(ok) ==
    \E w \in workers :
        /\ w.fn = "compose_up"
        /\ Commit(start_done(Cur, view_lab, w.lab, ok))
        /\ Finished(w)
        /\ last_event' = Event("start_done", w.lab, IF ok THEN "ok" ELSE "failed")

StopDone(ok) ==
    \E w \in workers :
        /\ w.fn = "compose_down"
        /\ Commit(stop_done(Cur, view_lab, w.lab, ok))
        /\ Finished(w)
        /\ last_event' = Event("stop_done", w.lab, IF ok THEN "ok" ELSE "failed")

ResetDone(ok) ==
    \E w \in workers :
        /\ w.fn = "compose_reset"
        /\ Commit(reset_done(Cur, view_lab, w.lab, ok))
        /\ Finished(w)
        /\ last_event' = Event("reset_done", w.lab, IF ok THEN "ok" ELSE "failed")

\* _on_refresh_logs.done only fills the Logs tab
LogsDone(ok) ==
    \E w \in workers :
        /\ w.fn = "compose_logs"
        /\ Finished(w)
        /\ last_event' = Event("logs_done", w.lab, IF ok THEN "ok" ELSE "failed")
        /\ emitted' = <<>>
        /\ UNCHANGED <<running_lab, running_lab_id, runtime_op, runtime_op_lab_id,
                       conn_state, started_events>>

\* ======================================================= core/progress_db
\* Everything below models core/progress_db.py and the progress part of
\* AppState.  A call is threaded through a record d holding the module state
\* it reads and writes, the urls it requested, the exception it is raising
\* and its return value.

MaxTime == 3
NumStoreLabs == 1

\* The labs the progress calls are made for.
StoreLabs == 1..NumStoreLabs

all_vars == <<vars, sync_vars, device>>

\* _CACHE_TTL, _device_linked_cache_ttl_s(), fetch_profile's max_age_s
CACHE_TTL == 2
DEVICE_LINKED_TTL == 30
PROFILE_TTL == 8

\* Cached data: None; the empty answer ({} / DeviceStats() / ""); an answer
\* read from the server that still is what the server holds ("Current"); or
\* one read before a later write or change of account ("Outdated").  The
\* linkage entry holds "linked" or "unlinked".
None == "None"
Blank == "Blank"
Current == "Current"
Outdated == "Outdated"
Answers == {Current, Outdated}
Entry(ts, data) == [ts |-> ts, data |-> data]
Empty == Entry(0, None)

EmptyCache ==
    [progress_blob |-> Empty, progress_map |-> Empty, summary |-> Empty,
     recent |-> Empty, notes |-> [l \in Labs |-> Empty], stats |-> Empty,
     device_linked |-> Empty, profile |-> Empty]

\* How one remote request ends: a JSON answer, an HTTP error status other
\* than 401, HTTP 401, or no connection (URLError).
NetOutcomes == {"ok", "http_error", "401", "down"}
PlainOutcomes == NetOutcomes \ {"401"}

PdbRec(t, c, st, sv) ==
    [now |-> t, cache |-> c, token |-> st.token, username |-> st.username,
     linked |-> sv.linked,
     urls |-> {}, exc |-> "none", resp |-> "none", ret |-> None, ok |-> FALSE,
     rejected |-> FALSE]

Pdb == PdbRec(now, cache, settings, server)

\* is_logged_in()
is_logged_in(d) == d.token # ""

\* _fresh(ts, max_age_s)
fresh(d, ts, ttl) == (d.now - ts) <= ttl

\* The test every cached read makes before it serves an entry.
hit(d, e, ttl) == e.data # None /\ fresh(d, e.ts, ttl)

\* _invalidate(lab_id)
invalidate(d, lab_id) ==
    LET c == d.cache
    IN [d EXCEPT !.cache =
           [c EXCEPT !.progress_blob = Empty,
                     !.progress_map = Empty,
                     !.summary = Empty,
                     !.recent = Empty,
                     !.notes = [l \in Labs |-> IF l = lab_id THEN Empty ELSE c.notes[l]],
                     !.stats = Empty,
                     !.profile = Empty]]

\* _clear_auth_state()
clear_auth_state(d) ==
    invalidate([d EXCEPT !.token = "", !.username = ""], NoLab)

\* Mutant: a 401 on an authenticated request is raised like any HTTP error.
request_failed_keeps_credential(d, auth, out) ==
    [d EXCEPT !.exc = "HTTPError", !.rejected = (auth /\ out = "401")]

\* _request_json, the HTTPError handler: a 401 on an authenticated request
\* clears the credential and the cache; the error is raised again in any case
request_failed(d, auth, out) ==
    IF auth /\ out = "401"
    THEN [invalidate(clear_auth_state(d), NoLab)
             EXCEPT !.exc = "HTTPError", !.rejected = TRUE]
    ELSE [d EXCEPT !.exc = "HTTPError"]

\* _request_json(method, url, payload, auth=...), ending as out says
request_json(d, url, auth, out) ==
    IF out = "ok" THEN [d EXCEPT !.urls = @ \cup {url}, !.resp = "ok"]
    ELSE IF out = "down" THEN [d EXCEPT !.urls = @ \cup {url}, !.exc = "URLError"]
    ELSE request_failed([d EXCEPT !.urls = @ \cup {url}], auth, out)

\* _safe_request_json, the except clause: an HTTPError becomes the answer {}
swallow_http_error(r) ==
    IF r.exc = "HTTPError" THEN [r EXCEPT !.exc = "none", !.resp = "{}"] ELSE r

\* _safe_request_json(method, url, payload, auth=...)
safe_request_json(d, url, auth, out) ==
    swallow_http_error(request_json(d, url, auth, out))

\* is_device_linked, after the request: cache and return the answer
store_device_linked(r) ==
    IF r.exc # "none" THEN r
    ELSE [r EXCEPT !.cache.device_linked =
                       Entry(r.now, IF r.resp = "ok" /\ r.linked
                                    THEN "linked" ELSE "unlinked"),
                   !.ok = (r.resp = "ok" /\ r.linked)]

\* is_device_linked(force=...)
is_device_linked(d, force, out) ==
    IF ~force /\ hit(d, d.cache.device_linked, DEVICE_LINKED_TTL)
    THEN [d EXCEPT !.ok = (d.cache.device_linked.data = "linked")]
    ELSE store_device_linked(safe_request_json(d, "device-linked", FALSE, out))

\* requires_login_gate, the except clause: fail open
fail_open(r) ==
    IF r.exc # "none" THEN [r EXCEPT !.exc = "none", !.ok = FALSE] ELSE r

\* requires_login_gate(force=...)
requires_login_gate(d, force, out) ==
    IF is_logged_in(d) THEN [d EXCEPT !.ok = FALSE]
    ELSE fail_open(is_device_linked(d, force, out))

\* What an answer of the server holds: data that reflect every write so far,
\* data computed before a later write, or nothing usable ({}).
answer(resp) ==
    IF resp = "ok" THEN Current ELSE IF resp = "stale" THEN Outdated ELSE Blank

\* _fetch_progress_blob, after the request: cache and return the blob
store_progress_blob(r) ==
    IF r.exc # "none" THEN r
    ELSE [r EXCEPT !.cache.progress_blob =
                       Entry(r.now, answer(r.resp)),
                   !.ret = answer(r.resp)]

\* _fetch_progress_blob, after the gate check g: a linked device that is
\* logged out gets {} without a request
fetch_progress_blob_gated(g, out) ==
    IF g.ok /\ ~is_logged_in(g)
    THEN [g EXCEPT !.cache.progress_blob = Entry(g.now, Blank), !.ret = Blank]
    ELSE store_progress_blob(safe_request_json(g, "progress", FALSE, out))

\* _fetch_progress_blob(force=...)
fetch_progress_blob(d, force, out) ==
    IF ~force /\ hit(d, d.cache.progress_blob, CACHE_TTL)
    THEN [d EXCEPT !.ret = d.cache.progress_blob.data]
    ELSE fetch_progress_blob_gated(requires_login_gate(d, FALSE, out), out)

\* get_progress_map, after the blob b is there: cache and return the map
store_progress_map(b) ==
    IF b.exc # "none" THEN b
    ELSE [b EXCEPT !.cache.progress_map = Entry(b.now, b.ret)]

\* get_progress_map(force=...)
get_progress_map(d, force, out) ==
    IF ~force /\ hit(d, d.cache.progress_map, CACHE_TTL)
    THEN [d EXCEPT !.ret = d.cache.progress_map.data]
    ELSE store_progress_map(fetch_progress_blob(d, force, out))

\* get_notes, after the request to the notes endpoint
store_notes(r, lab_id) ==
    IF r.exc # "none" THEN r
    ELSE [r EXCEPT !.cache.notes[lab_id] =
                       Entry(r.now, IF r.resp = "ok" THEN Current ELSE Blank),
                   !.ret = IF r.resp = "ok" THEN Current ELSE Blank]

\* get_notes, after get_progress_map returned or raised (pm): the notes of
\* the lab's row if it has one, else a request to the notes endpoint
get_notes_from(pm, lab_id, out, in_map) ==
    IF pm.exc = "none" /\ pm.ret \in Answers /\ in_map
    THEN [pm EXCEPT !.cache.notes[lab_id] = Entry(pm.now, pm.ret)]
    ELSE store_notes(safe_request_json([pm EXCEPT !.exc = "none"],
                                       "notes", FALSE, out), lab_id)

\* get_notes(lab_id); in_map says whether the progress map has a row for the lab
get_notes(d, lab_id, out, in_map) ==
    IF hit(d, d.cache.notes[lab_id], CACHE_TTL)
    THEN [d EXCEPT !.ret = d.cache.notes[lab_id].data]
    ELSE get_notes_from(get_progress_map(d, FALSE, out), lab_id, out, in_map)

\* usercounter.send_event: the server's data changes; nothing local does
send_event(d) == d

\* Mutant: a progress event is sent without dropping the cached answers.
mark_event_keeps_cache(d, lab_id) == send_event(d)

\* mark_started / mark_attempt / mark_solved(lab_id)
mark_event(d, lab_id) == send_event(invalidate(d, lab_id))

\* set_notes, after the POST: cache the notes, then _invalidate(lab_id)
set_notes_store(r, lab_id) ==
    IF r.exc # "none" THEN r
    ELSE invalidate([r EXCEPT !.cache.notes[lab_id] = Entry(r.now, Current)], lab_id)

\* set_notes(lab_id, notes)
set_notes(d, lab_id, out) ==
    set_notes_store(safe_request_json(d, "notes", FALSE, out), lab_id)

\* submit_flag, after the POST
submit_flag_answer(r, lab_id, correct) ==
    IF r.exc # "none" THEN r
    ELSE IF r.resp = "ok" /\ correct
    THEN [invalidate(r, lab_id) EXCEPT !.ok = TRUE]
    ELSE [r EXCEPT !.ok = FALSE]

\* submit_flag(lab_id, flag); correct says whether the server accepts the flag
submit_flag(d, lab_id, out, correct) ==
    submit_flag_answer(safe_request_json(d, "submit-flag", FALSE, out), lab_id, correct)

MarkOps == {"mark_started", "mark_attempt", "mark_solved"}

\* A write of the progress store has returned normally: mark_started,
\* mark_attempt, mark_solved, set_notes, or a submit_flag the server accepted.
WriteReturned ==
    /\ last_call.exc = "none"
    /\ \/ last_call.op \in MarkOps \cup {"set_notes"}
       \/ last_call.op = "submit_flag" /\ last_call.ok

\* The record of a call: what it requested, raised and returned, and the lab
\* of the write it directly follows (NoLab if it follows none).
Call(op, lab, d) ==
    [op |-> op, lab |-> lab, urls |-> d.urls, exc |-> d.exc, ret |-> d.ret,
     ok |-> d.ok, rejected |-> d.rejected,
     after_write |-> IF WriteReturned THEN last_call.lab ELSE NoLab]

\* Writes the module state a call leaves behind, and records the call.
PdbCommit(op, lab, d) ==
    /\ cache' = d.cache
    /\ settings' = [token |-> d.token, username |-> d.username]
    /\ server' = [linked |-> d.linked]
    /\ last_call' = Call(op, lab, d)

\* Time passes.
Tick ==
    /\ now < MaxTime
    /\ now' = now + 1
    /\ UNCHANGED <<cache, settings, server, app_cache, poller, last_call>>
    /\ UNCHANGED <<vars, device>>

\* progress_db.get_progress_map(force=...), called on the GUI thread
GetProgressMap(force, out) ==
    /\ PdbCommit(IF force THEN "get_progress_map_forced" ELSE "get_progress_map",
                 NoLab, get_progress_map(Pdb, force, out))
    /\ UNCHANGED <<now, app_cache, poller>>
    /\ UNCHANGED <<vars, device>>

\* progress_db.get_notes(lab_id)
GetNotes(lab, out, in_map) ==
    /\ PdbCommit("get_notes", lab, get_notes(Pdb, lab, out, in_map))
    /\ UNCHANGED <<now, app_cache, poller>>
    /\ UNCHANGED <<vars, device>>

\* progress_db.mark_started(lab_id), mark_attempt(lab_id), mark_solved(lab_id)
MarkEvent(op, lab) ==
    /\ PdbCommit(op, lab, mark_event(Pdb, lab))
    /\ UNCHANGED <<now, app_cache, poller>>
    /\ UNCHANGED <<vars, device>>

\* progress_db.set_notes(lab_id, notes)
SetNotes(lab, out) ==
    /\ PdbCommit("set_notes", lab, set_notes(Pdb, lab, out))
    /\ UNCHANGED <<now, app_cache, poller>>
    /\ UNCHANGED <<vars, device>>

\* progress_db.submit_flag(lab_id, flag)
SubmitFlag(lab, out, correct) ==
    /\ PdbCommit("submit_flag", lab, submit_flag(Pdb, lab, out, correct))
    /\ UNCHANGED <<now, app_cache, poller>>
    /\ UNCHANGED <<vars, device>>


\* ---- AppState's progress views and its convergence pollers ----

PROGRESS_ATTEMPTS == 6
STATS_ATTEMPTS == 4

Pollers == {"progress", "stats"}

\* The background threads: the pollers and the logout clean-up worker.
Threads == Pollers \cup {"logout"}

\* The attempt budget of a poller started by submit_flag.
Budget(kind) == IF kind = "progress" THEN PROGRESS_ATTEMPTS ELSE STATS_ATTEMPTS

\* A poller thread: where it is in its loop, the forced reads it has made,
\* the answer it holds between the request and the store, and the read at
\* which its predicate first held (0 while it has not), and the UI refresh
\* notifications it has triggered.
Thread(pc, reads, resp, first_true) ==
    [pc |-> pc, reads |-> reads, resp |-> resp, first_true |-> first_true,
     notified |-> 0]

NoThread == Thread("idle", 0, "none", 0)

NoPollers == [k \in Threads |-> NoThread]

\* A write reaches the server, or the account changes: an answer a poller
\* already holds was computed before it.
outdate(p) ==
    [k \in Threads |-> IF p[k].resp = "ok" THEN [p[k] EXCEPT !.resp = "stale"] ELSE p[k]]

\* AppState._invalidate_all_progress_views
invalidate_all_progress_views(a) ==
    [a EXCEPT !.progress_dirty = TRUE, !.summary_dirty = TRUE]

\* The call starts anew on the module state an earlier call left.
next_call(d) == [d EXCEPT !.exc = "none", !.resp = "none", !.ret = None, !.ok = FALSE]

\* get_device_stats, after the requests: build, cache and return the stats
store_stats(r) ==
    IF r.exc # "none" THEN r
    ELSE [r EXCEPT !.cache.stats = Entry(r.now, IF r.resp = "ok" THEN Current ELSE Blank),
                   !.ret = IF r.resp = "ok" THEN Current ELSE Blank]

\* get_device_stats, after /v1/auth/me (if a token is stored): without a
\* usable answer the device endpoint is asked
device_stats_fallback(r, out) ==
    IF r.exc # "none" \/ r.resp = "ok" THEN r
    ELSE safe_request_json(r, "stats", FALSE, out)

\* get_device_stats, the request to /v1/auth/me
auth_me(g, out) ==
    IF is_logged_in(g) THEN safe_request_json(next_call(g), "auth-me", TRUE, out)
    ELSE next_call(g)

\* get_device_stats, after the gate check g
get_device_stats_gated(g, out) ==
    IF g.ok /\ ~is_logged_in(g)
    THEN [g EXCEPT !.cache.stats = Entry(g.now, Blank), !.ret = Blank]
    ELSE store_stats(device_stats_fallback(auth_me(g, out), out))

\* get_device_stats(force=...)
get_device_stats(d, force, out) ==
    IF ~force /\ hit(d, d.cache.stats, CACHE_TTL)
    THEN [d EXCEPT !.ret = d.cache.stats.data]
    ELSE get_device_stats_gated(requires_login_gate(d, FALSE, out), out)

\* try: ... except Exception: pass
swallow(r) == [r EXCEPT !.exc = "none"]

\* AppState.submit_flag up to the answer: mark_started, the stats snapshot
\* (best effort), then progress_db.submit_flag
app_submit_flag(d, lab_id, out, correct) ==
    submit_flag(next_call(swallow(get_device_stats(mark_event(d, lab_id), FALSE, out))),
                lab_id, out, correct)

\* AppState.progress_map, given what get_progress_map gives if it is called
app_progress_map(a, m) ==
    IF a.progress = None \/ a.progress_dirty
    THEN IF m.exc # "none" THEN a
         ELSE [a EXCEPT !.progress = m.ret, !.progress_dirty = FALSE]
    ELSE a

\* AppState.submit_flag(lab_id, flag) on the GUI thread; an accepted flag
\* starts the stats poller and the progress poller. One pair of pollers runs
\* at a time.
AppSubmitFlag(lab, out, correct) ==
    /\ \A k \in Pollers : poller[k].pc \in {"idle", "done"}
    /\ PdbCommit("app_submit_flag", lab, app_submit_flag(Pdb, lab, out, correct))
    /\ app_cache' = invalidate_all_progress_views(app_cache)
    /\ poller' = IF app_submit_flag(Pdb, lab, out, correct).ok
                 THEN [k \in Threads |-> IF k \in Pollers
                                          THEN Thread("read", 0, "none", 0)
                                          ELSE poller[k]]
                 ELSE poller
    /\ UNCHANGED now
    /\ UNCHANGED <<vars, device>>

\* AppState.mark_started / mark_attempt / mark_solved(lab_id) on the GUI thread
AppMarkEvent(op, lab) ==
    /\ PdbCommit(op, lab, mark_event(Pdb, lab))
    /\ app_cache' = invalidate_all_progress_views(app_cache)
    /\ poller' = outdate(poller)
    /\ UNCHANGED now
    /\ UNCHANGED <<vars, device>>

\* AppState.progress_map() on the GUI thread
AppProgressMap(out) ==
    /\ IF app_cache.progress = None \/ app_cache.progress_dirty
       THEN PdbCommit("progress_map", NoLab, get_progress_map(Pdb, FALSE, out))
       ELSE /\ last_call' = Call("progress_map", NoLab,
                                  [Pdb EXCEPT !.ret = app_cache.progress])
            /\ UNCHANGED <<cache, settings, server>>
    /\ app_cache' = app_progress_map(app_cache, get_progress_map(Pdb, FALSE, out))
    /\ UNCHANGED <<now, poller>>
    /\ UNCHANGED <<vars, device>>

\* The progress poller's forced read, up to the answer: the gate check, then
\* the request. A locked gate gives {} at once; a request that raises ends
\* the attempt; else the thread holds the answer.
poll_request_pc(g, r) ==
    IF g.ok /\ ~is_logged_in(g) THEN "gated"
    ELSE IF r.exc # "none" THEN "raised"
    ELSE "store"

progress_poll_request(t, g, r) ==
    IF poll_request_pc(g, r) = "store"
    THEN [t EXCEPT !.pc = "store", !.resp = r.resp]
    ELSE [t EXCEPT !.pc = "sleep", !.reads = @ + 1]

progress_poll_cache(g, out) ==
    IF g.ok /\ ~is_logged_in(g)
    THEN store_progress_map(fetch_progress_blob_gated(g, out)).cache
    ELSE g.cache

PollRequest(out) ==
    /\ poller["progress"].pc = "read"
    /\ poller' = [poller EXCEPT !["progress"] =
           progress_poll_request(@, requires_login_gate(Pdb, FALSE, out),
               safe_request_json(requires_login_gate(Pdb, FALSE, out),
                                 "progress", FALSE, out))]
    /\ cache' = progress_poll_cache(requires_login_gate(Pdb, FALSE, out), out)
    /\ UNCHANGED <<now, settings, server, app_cache, last_call>>
    /\ UNCHANGED <<vars, device>>

\* The progress poller stores the answer it holds in the cache and tests its
\* predicate (the lab's row has solved_at, as solved says); on success it
\* replaces AppState's map and leaves the loop.
progress_poll_store(t, solved) ==
    IF solved /\ t.resp # "{}"
    THEN [t EXCEPT !.pc = "finish", !.reads = @ + 1, !.first_true = t.reads + 1,
                   !.resp = "none"]
    ELSE [t EXCEPT !.pc = "sleep", !.reads = @ + 1, !.resp = "none"]

PollStore(solved) ==
    /\ poller["progress"].pc = "store"
    /\ cache' = store_progress_map(store_progress_blob(
                    [Pdb EXCEPT !.resp = poller["progress"].resp])).cache
    /\ poller' = [poller EXCEPT !["progress"] = progress_poll_store(@, solved)]
    /\ app_cache' =
          IF solved /\ poller["progress"].resp # "{}"
          THEN [app_cache EXCEPT
                   !.progress = IF poller["progress"].resp = "stale"
                                THEN Outdated ELSE Current,
                   !.progress_dirty = FALSE, !.summary_dirty = TRUE]
          ELSE app_cache
    /\ UNCHANGED <<now, settings, server, last_call>>
    /\ UNCHANGED <<vars, device>>

\* Mutant: a forced read that raises ends the thread with nothing caught.
stats_poll_crashes(t, r, grown) ==
    IF r.exc # "none" THEN [t EXCEPT !.pc = "done", !.reads = @ + 1]
    ELSE IF grown /\ r.ret = Current
    THEN [t EXCEPT !.pc = "finish", !.reads = @ + 1, !.first_true = t.reads + 1]
    ELSE [t EXCEPT !.pc = "sleep", !.reads = @ + 1]

\* The stats poller's forced read, get_device_stats(force=True), and its
\* predicate (labs_solved has grown, as grown says); a read that raises ends
\* the loop.
stats_poll(t, r, grown) ==
    IF r.exc # "none" THEN [t EXCEPT !.pc = "finish", !.reads = @ + 1]
    ELSE IF grown /\ r.ret = Current
    THEN [t EXCEPT !.pc = "finish", !.reads = @ + 1, !.first_true = t.reads + 1]
    ELSE [t EXCEPT !.pc = "sleep", !.reads = @ + 1]

PollStats(out, grown) ==
    /\ poller["stats"].pc = "read"
    /\ \E d \in {get_device_stats(Pdb, TRUE, out)} :
          /\ poller' = [poller EXCEPT !["stats"] = stats_poll(@, d, grown)]
          /\ cache' = d.cache
          /\ settings' = [token |-> d.token, username |-> d.username]
    /\ UNCHANGED <<now, server, app_cache, last_call>>
    /\ UNCHANGED <<vars, device>>

\* time.sleep(delay), then the next attempt if the budget allows one
poll_sleep(t, budget) ==
    [t EXCEPT !.pc = IF t.reads < budget THEN "read" ELSE "finish"]

PollSleep(kind) ==
    /\ poller[kind].pc = "sleep"
    /\ poller' = [poller EXCEPT ![kind] = poll_sleep(@, Budget(kind))]
    /\ UNCHANGED <<now, cache, settings, server, app_cache, last_call>>
    /\ UNCHANGED <<vars, device>>

\* The poller's last act, QTimer.singleShot(0, ...), run on the GUI thread:
\* the progress poller invalidates the progress views and emits
\* progress_changed, the stats poller emits player_stats_changed.
PollFinish(kind) ==
    /\ poller[kind].pc = "finish"
    /\ poller' = [poller EXCEPT ![kind].pc = "done", ![kind].notified = @ + 1]
    /\ app_cache' = IF kind = "progress"
                    THEN invalidate_all_progress_views(app_cache) ELSE app_cache
    /\ UNCHANGED <<now, cache, settings, server, last_call>>
    /\ UNCHANGED <<vars, device>>


\* ---- Authentication transitions and the access gate ----

\* invalidate_remote_cache()
invalidate_remote_cache(d) ==
    [d EXCEPT !.cache.stats = Empty, !.cache.progress_blob = Empty,
              !.cache.progress_map = Empty, !.cache.summary = Empty,
              !.cache.profile = Empty]

\* progress_db.on_auth_changed()
on_auth_changed(d) == invalidate(d, NoLab)

\* AppState.on_auth_changed, the part on AppState's own caches
app_on_auth_changed(a) ==
    [a EXCEPT !.progress = None, !.progress_dirty = TRUE,
              !.summary = None, !.summary_dirty = TRUE,
              !.notes = [l \in Labs |-> None]]

\* The server's side of a login, signup or device login that names this
\* device and asks to trust it: the device is linked to the account.
link_device(d) == [d EXCEPT !.linked = TRUE]

\* The user name a login answer carries: none, or the account's.
Usernames == {"", "user"}

\* AuthDialog._save_auth(data): the token is stored, the user name only if
\* the answer carries one
save_auth(d, user) ==
    invalidate_remote_cache(
        [d EXCEPT !.token = "tok",
                  !.username = IF user # "" THEN user ELSE d.username])

\* ProfileView._logout, the fast path: the token is removed
logout_fast(d) == [d EXCEPT !.token = ""]

\* clear_everything_on_logout()
clear_everything_on_logout(d) ==
    [invalidate([d EXCEPT !.token = "", !.username = ""], NoLab)
        EXCEPT !.cache.device_linked = Empty]

\* logout_remote_best_effort()
logout_remote_best_effort(d, out) ==
    IF d.token = "" THEN d
    ELSE swallow(safe_request_json(d, "logout", TRUE, out))

\* _LogoutWorker.run
logout_worker(d, out) ==
    clear_everything_on_logout(invalidate_remote_cache(
        logout_remote_best_effort([d EXCEPT !.token = "", !.username = ""], out)))

\* _request_json_with_retries, after the attempts: an authenticated call
\* without a token left raises AuthRequiredError
auth_required(r, auth) ==
    IF r.exc = "none" /\ auth /\ r.token = ""
    THEN [r EXCEPT !.exc = "AuthRequiredError"] ELSE r

\* _request_json_with_retries(method, url, auth=...); every attempt ends as
\* out says
request_json_with_retries(d, url, auth, out) ==
    auth_required(safe_request_json(d, url, auth, out), auth)

\* fetch_profile, after the request: cache and return the profile
store_profile(r) ==
    IF r.exc # "none" THEN r
    ELSE [r EXCEPT !.cache.profile = Entry(r.now, answer(r.resp)),
                   !.ret = answer(r.resp)]

\* fetch_profile(force=...)
fetch_profile(d, force, out) ==
    IF ~force /\ hit(d, d.cache.profile, PROFILE_TTL)
    THEN [d EXCEPT !.ret = d.cache.profile.data]
    ELSE IF ~is_logged_in(d) THEN [d EXCEPT !.exc = "AuthRequiredError"]
    ELSE store_profile(request_json_with_retries(d, "auth-me", TRUE, out))

\* get_summary / get_recent, after the blob b is there: cache and return
store_summary(b) ==
    IF b.exc # "none" THEN b ELSE [b EXCEPT !.cache.summary = Entry(b.now, b.ret)]

store_recent(b) ==
    IF b.exc # "none" THEN b ELSE [b EXCEPT !.cache.recent = Entry(b.now, b.ret)]

\* get_summary()
get_summary(d, out) ==
    IF hit(d, d.cache.summary, CACHE_TTL)
    THEN [d EXCEPT !.ret = d.cache.summary.data]
    ELSE store_summary(fetch_progress_blob(d, FALSE, out))

\* get_recent(limit)
get_recent(d, out) ==
    IF hit(d, d.cache.recent, CACHE_TTL)
    THEN [d EXCEPT !.ret = d.cache.recent.data]
    ELSE store_recent(fetch_progress_blob(d, FALSE, out))

\* Mutant: a failing linkage check counts as linked.
device_is_linked_fallback_closed(r) ==
    IF r.exc # "none" THEN [r EXCEPT !.exc = "none", !.ok = TRUE] ELSE r

\* MainWindow._device_is_linked / Sidebar._device_is_linked, when
\* is_device_linked raised: no auth/device_linked setting is ever written, so
\* a saved username decides
device_is_linked_fallback(r) ==
    IF r.exc # "none" THEN [r EXCEPT !.exc = "none", !.ok = (r.username # "")] ELSE r

\* MainWindow._device_is_linked() / Sidebar._device_is_linked()
device_is_linked(d, out) ==
    device_is_linked_fallback(is_device_linked(d, FALSE, out))

\* MainWindow.navigate: locked = linked and not logged_in
navigate_locked(l) == [l EXCEPT !.ok = (l.ok /\ ~is_logged_in(l))]

\* Sidebar._is_logged_in(): a token and a user name
sidebar_is_logged_in(d) == d.token # "" /\ d.username # ""

\* Sidebar._apply_access_lock: locked = linked and not logged_in
sidebar_locked(l) == [l EXCEPT !.ok = (l.ok /\ ~sidebar_is_logged_in(l))]

\* A login, signup or device login succeeds: the credential is saved, then
\* auth_changed is handled (MainWindow._on_auth_changed).
Login(user) ==
    /\ ~is_logged_in(Pdb)
    /\ PdbCommit("login", NoLab, on_auth_changed(save_auth(link_device(Pdb), user)))
    /\ app_cache' = app_on_auth_changed(app_cache)
    /\ poller' = outdate(poller)
    /\ UNCHANGED now
    /\ UNCHANGED <<vars, device>>

\* ProfileView._logout on the GUI thread: the token goes, auth_changed is
\* handled, and the clean-up worker is started.
Logout ==
    /\ is_logged_in(Pdb)
    /\ poller["logout"].pc = "idle"
    /\ PdbCommit("logout", NoLab, on_auth_changed(logout_fast(Pdb)))
    /\ app_cache' = app_on_auth_changed(app_cache)
    /\ poller' = [outdate(poller) EXCEPT !["logout"].pc = "run"]
    /\ UNCHANGED now
    /\ UNCHANGED <<vars, device>>

\* _LogoutWorker.run in its thread
LogoutWorker(out) ==
    /\ poller["logout"].pc = "run"
    /\ PdbCommit("logout_worker", NoLab, logout_worker(Pdb, out))
    /\ poller' = [poller EXCEPT !["logout"].pc = "idle"]
    /\ UNCHANGED <<now, app_cache>>
    /\ UNCHANGED <<vars, device>>

\* progress_db.get_device_stats(force=...) on the GUI thread
GetDeviceStats(force, out) ==
    /\ PdbCommit("get_device_stats", NoLab, get_device_stats(Pdb, force, out))
    /\ UNCHANGED <<now, app_cache, poller>>
    /\ UNCHANGED <<vars, device>>

\* progress_db.fetch_profile(force=...)
FetchProfile(force, out) ==
    /\ PdbCommit("fetch_profile", NoLab, fetch_profile(Pdb, force, out))
    /\ UNCHANGED <<now, app_cache, poller>>
    /\ UNCHANGED <<vars, device>>

\* progress_db.get_summary()
GetSummary(out) ==
    /\ PdbCommit("get_summary", NoLab, get_summary(Pdb, out))
    /\ UNCHANGED <<now, app_cache, poller>>
    /\ UNCHANGED <<vars, device>>

\* progress_db.get_recent()
GetRecent(out) ==
    /\ PdbCommit("get_recent", NoLab, get_recent(Pdb, out))
    /\ UNCHANGED <<now, app_cache, poller>>
    /\ UNCHANGED <<vars, device>>

\* progress_db.is_device_linked(force=...)
IsDeviceLinked(force, out) ==
    /\ PdbCommit("is_device_linked", NoLab, is_device_linked(Pdb, force, out))
    /\ UNCHANGED <<now, app_cache, poller>>
    /\ UNCHANGED <<vars, device>>

\* progress_db.requires_login_gate(force=...)
RequiresLoginGate(force, out) ==
    /\ PdbCommit("requires_login_gate", NoLab, requires_login_gate(Pdb, force, out))
    /\ UNCHANGED <<now, app_cache, poller>>
    /\ UNCHANGED <<vars, device>>

\* MainWindow.navigate: the lock it computes
Navigate(out) ==
    /\ PdbCommit("navigate", NoLab, navigate_locked(device_is_linked(Pdb, out)))
    /\ UNCHANGED <<now, app_cache, poller>>
    /\ UNCHANGED <<vars, device>>

\* Sidebar._apply_access_lock / _is_access_locked_for_index: the lock
SidebarLock(out) ==
    /\ PdbCommit("sidebar_lock", NoLab, sidebar_locked(device_is_linked(Pdb, out)))
    /\ UNCHANGED <<now, app_cache, poller>>
    /\ UNCHANGED <<vars, device>>


\* AppState.total_attempts, given what get_summary gives if it is called
app_total_attempts(a, m) ==
    IF a.summary = None \/ a.summary_dirty
    THEN IF m.exc # "none" THEN a
         ELSE [a EXCEPT !.summary = m.ret, !.summary_dirty = FALSE]
    ELSE a

\* AppState.set_notes, after progress_db.set_notes returned or raised (r):
\* the text is kept in _notes_cache and progress_changed is emitted
app_set_notes(a, lab_id, r) ==
    IF r.exc # "none" THEN a ELSE [a EXCEPT !.notes[lab_id] = Current]

\* AppState.total_attempts() on the GUI thread
AppTotalAttempts(out) ==
    /\ IF app_cache.summary = None \/ app_cache.summary_dirty
       THEN PdbCommit("total_attempts", NoLab, get_summary(Pdb, out))
       ELSE /\ last_call' = Call("total_attempts", NoLab,
                                  [Pdb EXCEPT !.ret = app_cache.summary])
            /\ UNCHANGED <<cache, settings, server>>
    /\ app_cache' = app_total_attempts(app_cache, get_summary(Pdb, out))
    /\ UNCHANGED <<now, poller>>
    /\ UNCHANGED <<vars, device>>

\* AppState.set_notes(lab_id, notes) on the GUI thread
AppSetNotes(lab, out) ==
    /\ PdbCommit("app_set_notes", lab, set_notes(Pdb, lab, out))
    /\ app_cache' = app_set_notes(app_cache, lab, set_notes(Pdb, lab, out))
    /\ poller' = outdate(poller)
    /\ UNCHANGED now
    /\ UNCHANGED <<vars, device>>


\* ---- The device identity ----

NumDeviceIds == 2

\* The values uuid.uuid4() may give.
DeviceIds == 1..NumDeviceIds

\* The threads that call get_device_id(): the GUI thread and a background
\* thread (a poller, the sidebar's statistics refresh, a telemetry sender).
ConnThreads == {"gui", "worker"}

\* The device table, where each thread is in get_device_id(), and the
\* identifiers get_device_id() has returned so far.
Device(rows) ==
    [rows |-> rows, pc |-> [th \in ConnThreads |-> "idle"], returned |-> {}]

\* A first run: progress.db does not exist yet.
DeviceFirstRun == Device({})

\* An installation whose identity was created by an earlier run.
DeviceInstalled == Device({1})

\* connect(): CREATE TABLE IF NOT EXISTS, then SELECT id FROM device LIMIT 1
connect_select(dv, th) ==
    [dv EXCEPT !.pc[th] = IF dv.rows = {} THEN "insert" ELSE "read"]

\* connect(), if the SELECT gave no row: INSERT a new uuid4, then commit
connect_insert(dv, th, did) ==
    [dv EXCEPT !.rows = @ \cup {did}, !.pc[th] = "read"]

\* get_device_id(), after connect(): SELECT id FROM device LIMIT 1, which
\* gives the row did
get_device_id(dv, th, did) ==
    [dv EXCEPT !.returned = @ \cup {did}, !.pc[th] = "idle"]

\* A thread calls get_device_id() and connect() looks for the row.
DevConnect(th) ==
    /\ device.pc[th] = "idle"
    /\ device' = connect_select(device, th)
    /\ UNCHANGED <<vars, sync_vars>>

\* connect() found no row and inserts one; uuid4 gives a value not in use.
DevInsert(th, did) ==
    /\ device.pc[th] = "insert"
    /\ did \notin device.rows
    /\ device' = connect_insert(device, th, did)
    /\ UNCHANGED <<vars, sync_vars>>

\* get_device_id() reads the identifier; the query has no ORDER BY, so
\* which row it gives when there are several is up to sqlite.
DevRead(th, did) ==
    /\ device.pc[th] = "read"
    /\ did \in device.rows
    /\ device' = get_device_id(device, th, did)
    /\ UNCHANGED <<vars, sync_vars>>

\* The progress store before its first call; nothing in the lab runtime moves.
SyncIdle ==
    /\ now = 0
    /\ cache = EmptyCache
    /\ settings = [token |-> "", username |-> ""]
    /\ server = [linked |-> FALSE]
    /\ app_cache = [progress |-> None, progress_dirty |-> TRUE,
                    summary |-> None, summary_dirty |-> TRUE,
                    notes |-> [l \in Labs |-> None]]
    /\ poller = NoPollers
    /\ device = DeviceInstalled
    /\ last_call = [op |-> "none", lab |-> NoLab, urls |-> {}, exc |-> "none",
                    ret |-> None, ok |-> FALSE, rejected |-> FALSE,
                    after_write |-> NoLab]

\* The lab runtime at rest, as the progress store's specifications keep it.
RuntimeIdle ==
    /\ running_lab = NoLab
    /\ running_lab_id = NoLab
    /\ constructed = TRUE
    /\ emitted = <<>>
    /\ runtime_op = "stopped"
    /\ runtime_op_lab_id = NoLab
    /\ view_lab = NoLab
    /\ conn_state = "stopped"
    /\ thread = <<>>
    /\ workers = {}
    /\ started_events = [l \in Labs |-> 0]
    /\ last_event = [h |-> "none", lab |-> NoLab, res |-> "none"]

\* The cache under reads, writes and the passing of time, on one thread; the
\* account (logged in or not) and the device's linkage are fixed but
\* arbitrary, a logged-in device being linked.
CacheInit ==
    /\ RuntimeIdle
    /\ now = 0
    /\ cache = EmptyCache
    /\ settings \in {[token |-> "", username |-> ""], [token |-> "tok", username |-> "user"]}
    /\ server \in [linked : BOOLEAN]
    /\ is_logged_in(Pdb) => server.linked
    /\ app_cache = [progress |-> None, progress_dirty |-> TRUE,
                    summary |-> None, summary_dirty |-> TRUE,
                    notes |-> [l \in Labs |-> None]]
    /\ poller = NoPollers
    /\ device = DeviceInstalled
    /\ last_call = [op |-> "none", lab |-> NoLab, urls |-> {}, exc |-> "none",
                    ret |-> None, ok |-> FALSE, rejected |-> FALSE,
                    after_write |-> NoLab]

\* The requests of these calls carry no credential, so that a 401 is an HTTP
\* error like any other.
CacheNext ==
    \/ Tick
    \/ \E force \in BOOLEAN, out \in PlainOutcomes : GetProgressMap(force, out)
    \/ \E lab \in StoreLabs, out \in PlainOutcomes, in_map \in BOOLEAN :
           GetNotes(lab, out, in_map)
    \/ \E op \in MarkOps, lab \in StoreLabs : MarkEvent(op, lab)
    \/ \E lab \in StoreLabs, out \in PlainOutcomes : SetNotes(lab, out)
    \/ \E lab \in StoreLabs, out \in PlainOutcomes, correct \in BOOLEAN :
           SubmitFlag(lab, out, correct)

CacheSpec == CacheInit /\ [][CacheNext]_all_vars

\* A flag is submitted and the two pollers run.
PollNext ==
    \/ \E lab \in StoreLabs, out \in NetOutcomes, correct \in BOOLEAN :
           AppSubmitFlag(lab, out, correct)
    \/ \E out \in NetOutcomes : PollRequest(out)
    \/ \E solved \in BOOLEAN : PollStore(solved)
    \/ \E out \in NetOutcomes, grown \in BOOLEAN : PollStats(out, grown)
    \/ \E kind \in Pollers : PollSleep(kind)
    \/ \E kind \in Pollers : PollFinish(kind)

PollSpec == CacheInit /\ [][PollNext]_all_vars

\* Each poller is a thread of its own and the operating system keeps
\* scheduling it; every request ends within the request time-out.
PollSteps(kind) ==
    \/ kind = "progress" /\ \E out \in NetOutcomes : PollRequest(out)
    \/ kind = "progress" /\ \E solved \in BOOLEAN : PollStore(solved)
    \/ kind = "stats" /\ \E out \in NetOutcomes, grown \in BOOLEAN : PollStats(out, grown)
    \/ PollSleep(kind)
    \/ PollFinish(kind)

FairPollSpec == PollSpec /\ \A kind \in Pollers : WF_all_vars(PollSteps(kind))

\* A flag is submitted and the progress poller runs beside the GUI thread's
\* writes and reads of the progress views, all within the cache's time to
\* live of one another.
RaceNext ==
    \/ \E lab \in StoreLabs, out \in NetOutcomes, correct \in BOOLEAN :
           AppSubmitFlag(lab, out, correct)
    \/ \E op \in MarkOps, lab \in StoreLabs : AppMarkEvent(op, lab)
    \/ \E out \in NetOutcomes : AppProgressMap(out)
    \/ \E out \in NetOutcomes : PollRequest(out)
    \/ \E solved \in BOOLEAN : PollStore(solved)
    \/ PollSleep("progress")
    \/ PollFinish("progress")

RaceSpec == CacheInit /\ [][RaceNext]_all_vars

\* The GUI thread writes through AppState and reads AppState's views and
\* the device stats, within the cache's time to live.
WriteNext ==
    \/ \E lab \in StoreLabs, out \in NetOutcomes, correct \in BOOLEAN :
           AppSubmitFlag(lab, out, correct)
    \/ \E op \in MarkOps, lab \in StoreLabs : AppMarkEvent(op, lab)
    \/ \E lab \in StoreLabs, out \in NetOutcomes : AppSetNotes(lab, out)
    \/ \E out \in NetOutcomes : AppProgressMap(out)
    \/ \E out \in NetOutcomes : AppTotalAttempts(out)
    \/ \E out \in NetOutcomes : GetDeviceStats(FALSE, out)

WriteSpec == CacheInit /\ [][WriteNext]_all_vars

\* The non-forced cached reads as time passes; no credential is rejected.
ReadNext ==
    \/ Tick
    \/ \E out \in PlainOutcomes : GetProgressMap(FALSE, out)
    \/ \E out \in PlainOutcomes : GetSummary(out)
    \/ \E out \in PlainOutcomes : GetDeviceStats(FALSE, out)
    \/ \E out \in PlainOutcomes : FetchProfile(FALSE, out)
    \/ \E out \in PlainOutcomes : IsDeviceLinked(FALSE, out)

ReadSpec == CacheInit /\ [][ReadNext]_all_vars

\* A first run of the application: threads ask for the device identity
\* while the user logs in and out and the cache is invalidated.
DeviceInit ==
    /\ RuntimeIdle
    /\ now = 0
    /\ cache = EmptyCache
    /\ settings = [token |-> "", username |-> ""]
    /\ server = [linked |-> FALSE]
    /\ app_cache = [progress |-> None, progress_dirty |-> TRUE,
                    summary |-> None, summary_dirty |-> TRUE,
                    notes |-> [l \in Labs |-> None]]
    /\ poller = NoPollers
    /\ device = DeviceFirstRun
    /\ last_call = [op |-> "none", lab |-> NoLab, urls |-> {}, exc |-> "none",
                    ret |-> None, ok |-> FALSE, rejected |-> FALSE,
                    after_write |-> NoLab]

DeviceNext ==
    \/ \E th \in ConnThreads : DevConnect(th)
    \/ \E th \in ConnThreads, did \in DeviceIds : DevInsert(th, did)
    \/ \E th \in ConnThreads, did \in DeviceIds : DevRead(th, did)
    \/ \E user \in Usernames : Login(user)
    \/ Logout
    \/ \E out \in NetOutcomes : LogoutWorker(out)
    \/ \E op \in MarkOps, lab \in StoreLabs : MarkEvent(op, lab)

DeviceSpec == DeviceInit /\ [][DeviceNext]_all_vars

\* A flag is submitted and the progress poller runs while the user logs in
\* or out.
IdentityNext ==
    \/ \E lab \in StoreLabs, out \in NetOutcomes, correct \in BOOLEAN :
           AppSubmitFlag(lab, out, correct)
    \/ \E out \in NetOutcomes : AppProgressMap(out)
    \/ \E out \in NetOutcomes : PollRequest(out)
    \/ \E solved \in BOOLEAN : PollStore(solved)
    \/ PollSleep("progress")
    \/ PollFinish("progress")
    \/ \E user \in Usernames : Login(user)
    \/ Logout
    \/ \E out \in NetOutcomes : LogoutWorker(out)

IdentitySpec == CacheInit /\ [][IdentityNext]_all_vars

\* The application starts logged out, on a device that is linked to an
\* account or is not; a device gets linked by a login. Logins, logouts and
\* reads follow one another within the cache's time to live.
AuthInit ==
    /\ RuntimeIdle
    /\ now = 0
    /\ cache = EmptyCache
    /\ settings = [token |-> "", username |-> ""]
    /\ server \in [linked : BOOLEAN]
    /\ app_cache = [progress |-> None, progress_dirty |-> TRUE,
                    summary |-> None, summary_dirty |-> TRUE,
                    notes |-> [l \in Labs |-> None]]
    /\ poller = NoPollers
    /\ device = DeviceInstalled
    /\ last_call = [op |-> "none", lab |-> NoLab, urls |-> {}, exc |-> "none",
                    ret |-> None, ok |-> FALSE, rejected |-> FALSE,
                    after_write |-> NoLab]

AuthNext ==
    \/ \E user \in Usernames : Login(user)
    \/ Logout
    \/ \E out \in NetOutcomes : LogoutWorker(out)
    \/ \E out \in NetOutcomes : GetProgressMap(FALSE, out)
    \/ \E lab \in StoreLabs, out \in NetOutcomes, in_map \in BOOLEAN :
           GetNotes(lab, out, in_map)
    \/ \E force \in BOOLEAN, out \in NetOutcomes : GetDeviceStats(force, out)
    \/ \E force \in BOOLEAN, out \in NetOutcomes : FetchProfile(force, out)
    \/ \E out \in NetOutcomes : GetSummary(out)
    \/ \E out \in NetOutcomes : GetRecent(out)

AuthSpec == AuthInit /\ [][AuthNext]_all_vars

\* The access gate as the core, the main window and the sidebar compute it,
\* across logins, logouts, rejected credentials and the passing of time.
GateNext ==
    \/ Tick
    \/ \E user \in Usernames : Login(user)
    \/ Logout
    \/ \E out \in NetOutcomes : LogoutWorker(out)
    \/ \E force \in BOOLEAN, out \in NetOutcomes : GetDeviceStats(force, out)
    \/ \E force \in BOOLEAN, out \in NetOutcomes : RequiresLoginGate(force, out)
    \/ \E out \in NetOutcomes : Navigate(out)
    \/ \E out \in NetOutcomes : SidebarLock(out)

GateSpec == AuthInit /\ [][GateNext]_all_vars

\* The values callers hand to set_runtime_op: the five ops and anything else.
OpArgs == Ops \cup {"other"}

\* AppState.set_runtime_op(op, lab_id), called on the GUI thread
SetRuntimeOp(op0, lab) ==
    /\ constructed
    /\ Commit(set_runtime_op(Cur, op0, lab))
    /\ last_event' = Event("set_runtime_op", lab, op0)
    /\ UNCHANGED <<view_lab, thread, workers, constructed>>
    /\ UNCHANGED <<sync_vars, device>>

\* AppState after construction, under any sequence of set_runtime_op calls
\* and of navigation between the labs.
OpInit == RuntimeIdle /\ SyncIdle

OpNext ==
    \/ \E op0 \in OpArgs, lab \in LabOrNone : SetRuntimeOp(op0, lab)
    \/ \E lab \in Labs : SetLab(lab)

OpSpec == OpInit /\ [][OpNext]_all_vars

\* Process start, before AppState.__init__: the persisted lock may name a lab
\* left over from an earlier session.
Init ==
    /\ running_lab \in LabOrNone
    /\ running_lab_id = NoLab
    /\ constructed = FALSE
    /\ emitted = <<>>
    /\ runtime_op = "stopped"
    /\ runtime_op_lab_id = NoLab
    /\ view_lab = NoLab
    /\ conn_state = "stopped"
    /\ thread = <<>>
    /\ workers = {}
    /\ started_events = [l \in Labs |-> 0]
    /\ last_event = Event("none", NoLab, "none")
    /\ SyncIdle

Next ==
    \/ \E docker_ok, compose_ok \in BOOLEAN, labs, containers \in SUBSET Labs :
           AppInit(docker_ok, compose_ok, labs, containers)
    \/ \E lab \in Labs : SetLab(lab)
    \/ \E ports_ok \in BOOLEAN : OnStart(ports_ok)
    \/ OnStop
    \/ OnReset
    \/ OnRefreshLogs
    \/ \E ok \in BOOLEAN : StartDone(ok)
    \/ \E ok \in BOOLEAN : StopDone(ok)
    \/ \E ok \in BOOLEAN : ResetDone(ok)
    \/ \E ok \in BOOLEAN : LogsDone(ok)

Spec == Init /\ [][Next]_vars

\* Every launched environment operation eventually reports back.
Completion ==
    /\ WF_vars(\E ok \in BOOLEAN : StartDone(ok))
    /\ WF_vars(\E ok \in BOOLEAN : StopDone(ok))
    /\ WF_vars(\E ok \in BOOLEAN : ResetDone(ok))
    /\ WF_vars(\E ok \in BOOLEAN : LogsDone(ok))

FairSpec == Spec /\ Completion

TypeOK ==
    /\ running_lab \in LabOrNone
    /\ running_lab_id \in LabOrNone
    /\ runtime_op \in Ops
    /\ runtime_op_lab_id \in LabOrNone
    /\ view_lab \in LabOrNone
    /\ conn_state \in Ops
    /\ Len(thread) <= 1
    /\ workers \subseteq [fn : Fns, lab : Labs]
    /\ \A i \in 1..Len(thread) : thread[i] \in workers
    /\ started_events \in [Labs -> 0..2]
    /\ constructed \in BOOLEAN
    /\ Len(emitted) <= 3

\* ----------------------------------------------------------------- claims

\* Neither a lifecycle operation nor a lock is outstanding anywhere.
Idle ==
    /\ runtime_op = "stopped"
    /\ runtime_op_lab_id = NoLab
    /\ running_lab = NoLab
    /\ running_lab_id = NoLab

\* A lab other than lab is mid-transition, or the persisted lock names one.
AnotherLabHolds(lab) ==
    \/ runtime_op \in Transient /\ runtime_op_lab_id \notin {NoLab, lab}
    \/ running_lab \notin {NoLab, lab}

\* C1: in no reachable state do two distinct labs both have a per-lab state
\* (runtime_op_for) other than "stopped".
C1_SingleActiveLab ==
    \A a, b \in Labs :
        a # b => ~(/\ runtime_op_for(Cur, a) # "stopped"
                   /\ runtime_op_for(Cur, b) # "stopped")

C1_Witness ==
    /\ last_event.h = "start"
    /\ last_event.res = "blocked"
    /\ running_lab_id \notin {NoLab, last_event.lab}
    /\ runtime_op_for(Cur, running_lab_id) = "running"
    /\ runtime_op_for(Cur, last_event.lab) = "stopped"

\* C2: a start request for a lab made while another lab is starting, stopping
\* or resetting, or while the lock names another lab, is rejected on the spot:
\* lock, running lab id and op stay as they were and no worker is launched.
C2_StartForOtherLabRejected ==
    [][\A ports_ok \in BOOLEAN :
          (OnStart(ports_ok) /\ AnotherLabHolds(view_lab))
              => /\ UNCHANGED <<running_lab, running_lab_id, runtime_op,
                                runtime_op_lab_id, thread, workers>>
                 /\ last_event'.res \in {"another_lab_busy", "blocked"}]_vars

C2_Witness ==
    /\ last_event.h = "start"
    /\ last_event.res = "another_lab_busy"
    /\ runtime_op \in Transient
    /\ runtime_op_lab_id \notin {NoLab, last_event.lab}
    /\ \A w \in workers : w.lab # last_event.lab

\* C3: once the op is starting, stopping or resetting it eventually becomes
\* running or stopped, given that every launched operation completes.
C3_TransientOpResolves ==
    (runtime_op \in Transient) ~> (runtime_op \in {"running", "stopped"})

\* C4: a start, stop or reset request that _run_docker rejects as busy leaves
\* the runtime lock and the transient op as they were before the request.
C4_BusyRequestChangesNothing ==
    [][(/\ \/ \E ports_ok \in BOOLEAN : OnStart(ports_ok)
           \/ OnStop
           \/ OnReset
        /\ thread # <<>>
        /\ last_event'.res = "busy")
          => UNCHANGED <<running_lab, runtime_op, runtime_op_lab_id>>]_vars

\* C5 as stated: after a stop completes, with success or failure, the lock is
\* empty and the op is "stopped".
C5_StopAlwaysClearsLock ==
    last_event.h = "stop_done" => (running_lab = NoLab /\ runtime_op = "stopped")

\* What _on_stop.done does instead (C5): after a stop completes the op is
\* "stopped" with no lab in both cases; the lock and the running lab id are
\* empty after a success and still name the lab after a failure.
C5_StopCompletion ==
    last_event.h = "stop_done" =>
        /\ runtime_op = "stopped"
        /\ runtime_op_lab_id = NoLab
        /\ IF last_event.res = "ok"
           THEN running_lab = NoLab /\ running_lab_id = NoLab
           ELSE running_lab = last_event.lab /\ running_lab_id = last_event.lab

C5_Witness ==
    /\ last_event.h = "stop_done"
    /\ last_event.res = "failed"
    /\ running_lab = last_event.lab
    /\ runtime_op = "stopped"

\* C6: after an accepted start ends in failure, the persisted lock and the
\* running lab id are empty and the op is "stopped" with no lab id.
C6_FailedStartReleases ==
    (last_event.h = "start_done" /\ last_event.res = "failed") =>
        /\ running_lab = NoLab
        /\ running_lab_id = NoLab
        /\ runtime_op = "stopped"
        /\ runtime_op_lab_id = NoLab

C6_Witness ==
    /\ last_event.h = "start_done"
    /\ last_event.res = "failed"
    /\ running_lab = NoLab
    /\ view_lab # last_event.lab

\* C7: after an accepted start ends in success, the persisted lock and the
\* running lab id name the lab, the op is ("running", lab) and a lab_started
\* event has been recorded for the lab.
C7_SuccessfulStartRuns ==
    (last_event.h = "start_done" /\ last_event.res = "ok") =>
        /\ running_lab = last_event.lab
        /\ running_lab_id = last_event.lab
        /\ runtime_op = "running"
        /\ runtime_op_lab_id = last_event.lab
        /\ started_events[last_event.lab] >= 1

C7_Witness ==
    /\ last_event.h = "start_done"
    /\ last_event.res = "ok"
    /\ running_lab_id = last_event.lab
    /\ started_events[last_event.lab] >= 1

\* C8: while a reset of a lab is in flight the lock names the lab and the op is
\* ("resetting", lab), and a start of any other lab is rejected.
C8_ResetHoldsLock ==
    \A w \in workers :
        w.fn = "compose_reset" =>
            /\ running_lab = w.lab
            /\ runtime_op = "resetting"
            /\ runtime_op_lab_id = w.lab
            /\ \A b \in Labs \ {w.lab} :
                   start_check(Cur, b, TRUE) \in {"another_lab_busy", "blocked"}

C8_Witness ==
    /\ \E w \in workers : w.fn = "compose_reset" /\ w.lab # view_lab
    /\ last_event.h = "start"
    /\ last_event.lab = view_lab
    /\ last_event.res = "another_lab_busy"
    /\ runtime_op = "resetting"

\* C9: a successful stop leaves nothing held; from there a start of any lab
\* passes the busy and lock checks, also after navigation or a log fetch; and
\* a bring-up that succeeds ends with that lab running and the lock naming it.
C9_StartAfterStop ==
    /\ [][StopDone(TRUE) => Idle']_vars
    /\ [][(Idle /\ (\/ \E lab \in Labs : SetLab(lab)
                    \/ OnRefreshLogs
                    \/ \E ok \in BOOLEAN : LogsDone(ok))) => Idle']_vars
    /\ [][\A ports_ok \in BOOLEAN :
             (Idle /\ OnStart(ports_ok))
                 => last_event'.res \notin {"another_lab_busy", "in_progress", "blocked"}]_vars
    /\ [][StartDone(TRUE)
             => /\ runtime_op' = "running"
                /\ runtime_op_lab_id' = last_event'.lab
                /\ running_lab' = last_event'.lab
                /\ running_lab_id' = last_event'.lab]_vars

C9_Witness ==
    /\ last_event.h = "start_done"
    /\ last_event.res = "ok"
    /\ running_lab = last_event.lab
    /\ \E a \in Labs \ {last_event.lab} : started_events[a] >= 1

\* C10: at most one worker is in flight; a request made while one is
\* outstanding launches nothing; and a worker only ever appears in the step of
\* the request that launched it, for the lab then shown.
C10_OneOperationInFlight ==
    /\ [](Cardinality(workers) <= 1)
    /\ [][thread # <<>> => workers' \subseteq workers]_vars
    /\ [][\A w \in workers' \ workers :
             /\ w.lab = view_lab
             /\ last_event'.lab = w.lab
             /\ last_event'.res = "launched"]_vars

C10_Witness ==
    /\ Cardinality(workers) = 1
    /\ last_event.res = "busy"
    /\ \E w \in workers : w.lab # last_event.lab

\* The running_changed signals among those the last handler emitted.
RunningChanged == SelectSeq(emitted, LAMBDA e : e.sig = "running_changed")

\* The runtime_op_changed signals among those the last handler emitted.
RuntimeOpChanged == SelectSeq(emitted, LAMBDA e : e.sig = "runtime_op_changed")

\* C11 as stated: when the lock read at process start names a lab for which
\* nothing is running, then after AppState.__init__ the lock and the running
\* lab id are empty and exactly one running_changed(None) was emitted.
C11_StaleLockAlwaysCleared ==
    [][\A docker_ok, compose_ok \in BOOLEAN, labs, containers \in SUBSET Labs :
          (/\ AppInit(docker_ok, compose_ok, labs, containers)
           /\ running_lab # NoLab
           /\ running_lab \notin containers)
              => /\ running_lab' = NoLab
                 /\ running_lab_id' = NoLab
                 /\ RunningChanged' = <<Signal("running_changed", NoLab, "none")>>]_vars

\* C11 amended: the same, provided Docker and Compose v2 are both available
\* at start-up; when either is unavailable the lock is left as it was found
\* and nothing is emitted.
C11_StaleLockCleared ==
    [][\A docker_ok, compose_ok \in BOOLEAN, labs, containers \in SUBSET Labs :
          (/\ AppInit(docker_ok, compose_ok, labs, containers)
           /\ running_lab # NoLab
           /\ running_lab \notin containers)
              => IF docker_ok /\ compose_ok
                 THEN /\ running_lab' = NoLab
                      /\ running_lab_id' = NoLab
                      /\ RunningChanged' = <<Signal("running_changed", NoLab, "none")>>
                 ELSE /\ running_lab' = running_lab
                      /\ running_lab_id' = running_lab
                      /\ RunningChanged' = <<>>]_vars

C11_Witness ==
    /\ last_event.h = "init"
    /\ last_event.lab # NoLab
    /\ last_event.res = "cleared"
    /\ running_lab = NoLab
    /\ running_lab_id = NoLab
    /\ Len(RunningChanged) = 1

\* C12: in every reachable state an op other than "stopped" carries the id of
\* the lab it belongs to, and every runtime_op_changed signal says the same.
C12_OpHasLab ==
    /\ runtime_op # "stopped" => runtime_op_lab_id # NoLab
    /\ \A i \in 1..Len(emitted) :
           (emitted[i].sig = "runtime_op_changed" /\ emitted[i].op # "stopped")
               => emitted[i].lab # NoLab

C12_Witness ==
    /\ runtime_op = "resetting"
    /\ runtime_op_lab_id # NoLab
    /\ runtime_op_lab_id = running_lab_id
    /\ Len(RuntimeOpChanged) = 1
    /\ RuntimeOpChanged[1].lab = runtime_op_lab_id

\* C13: opening a lab (set_lab) changes neither the op, nor the op's lab id,
\* nor the persisted lock, nor the running lab id, and emits no
\* runtime_op_changed, whatever operation is in flight.
C13_NavigationLeavesOp ==
    [][\A lab \in Labs :
          SetLab(lab)
              => /\ UNCHANGED <<runtime_op, runtime_op_lab_id, running_lab,
                                running_lab_id>>
                 /\ RuntimeOpChanged' = <<>>]_vars

C13_Witness ==
    /\ last_event.h = "set_lab"
    /\ runtime_op \in Transient
    /\ runtime_op_lab_id \notin {NoLab, last_event.lab}
    /\ running_lab = runtime_op_lab_id
    /\ workers # {}
    /\ emitted = <<>>

\* C14: a start request whose port pre-check finds a needed host port taken
\* changes nothing: lock, running lab id, op and op lab stay as they were, no
\* signal is emitted and no worker is launched.
C14_PortConflictLaunchesNothing ==
    [][OnStart(FALSE)
          => /\ UNCHANGED <<running_lab, running_lab_id, runtime_op,
                            runtime_op_lab_id, conn_state, thread, workers>>
             /\ emitted' = <<>>
             /\ last_event'.res \notin {"launched", "busy"}]_vars

C14_Witness ==
    /\ last_event.h = "start"
    /\ last_event.res = "port_in_use"
    /\ runtime_op = "stopped"
    /\ running_lab \in {NoLab, last_event.lab}
    /\ workers = {}

\* Urls whose answer is progress data or notes.
DataUrls == {"progress", "notes"}

\* The call just made is the first non-forced read after a write returned:
\* get_progress_map(), or get_notes of the written lab.
ReadAfterWrite ==
    /\ last_call.after_write # NoLab
    /\ \/ last_call.op = "get_progress_map"
       \/ last_call.op = "get_notes" /\ last_call.lab = last_call.after_write

\* The access gate was locked for the call just made: no token is stored and
\* the device is known to be linked.
GateLocked ==
    /\ ~is_logged_in(Pdb)
    /\ hit(Pdb, cache.device_linked, DEVICE_LINKED_TTL)
    /\ cache.device_linked.data = "linked"

\* C15 as stated: the next non-forced get_progress_map, or get_notes of the
\* written lab, after a write has returned makes a request for the data.
C15_NextReadFetches ==
    ReadAfterWrite => last_call.urls \cap DataUrls # {}

\* C15 amended: after a write has returned, neither the progress map nor the
\* written lab's notes can be served from the cache, however fresh; the next
\* non-forced read requests the data, except that get_progress_map on a
\* linked device that is logged out answers with the empty map and requests
\* nothing.
C15_NextReadNotCached ==
    /\ WriteReturned =>
           /\ cache.progress_map = Empty
           /\ cache.progress_blob = Empty
           /\ cache.notes[last_call.lab] = Empty
    /\ ReadAfterWrite =>
           \/ last_call.urls \cap DataUrls # {}
           \/ /\ last_call.op = "get_progress_map"
              /\ GateLocked
              /\ last_call.ret = Blank
              /\ cache.progress_blob.data = Blank

C15_Witness ==
    /\ last_call.op = "get_notes"
    /\ last_call.after_write = last_call.lab
    /\ last_call.urls = {"progress"}
    /\ last_call.ret = Current
    /\ cache.notes[last_call.lab] = Entry(now, Current)
    /\ cache.device_linked.data = None
    /\ now < CACHE_TTL

\* C16: under any interleaving of the progress poller's forced read with a
\* write on the GUI thread, a read of the progress map made after the write
\* never returns a value that was fetched before the write.
C16_NoStaleReadAfterWrite ==
    last_call.op = "progress_map" => last_call.ret # Outdated

\* The budget-th read of a poller is the last; a poller whose predicate held
\* at read k made k reads; one that ended without its predicate holding made
\* budget reads.
PollerReads(kind) ==
    /\ poller[kind].reads <= Budget(kind)
    /\ poller[kind].first_true # 0 => poller[kind].reads = poller[kind].first_true
    /\ (poller[kind].pc = "done" /\ poller[kind].first_true = 0)
          => poller[kind].reads = Budget(kind)

\* C20: a poller whose predicate first holds on the k-th forced read makes
\* exactly k reads if k is within its budget and exactly budget reads
\* otherwise, never more.
C20_PollerReads == \A kind \in Pollers : PollerReads(kind)

\* AppState's own caches hold nothing that can be served.
AppCachesDropped ==
    /\ app_cache.progress = None \/ app_cache.progress_dirty
    /\ app_cache.summary = None \/ app_cache.summary_dirty
    /\ \A l \in Labs : app_cache.notes[l] = None

\* C17: once a login or a logout has been handled through on_auth_changed,
\* every cache entry is empty (stats, progress blob and map, summary, recent,
\* each lab's notes, profile, the device-linked flag) and AppState's caches
\* are empty or dirty.
C17_AuthChangeEmptiesCaches ==
    last_call.op \in {"login", "logout"} => cache = EmptyCache /\ AppCachesDropped

\* The calls that talk to the server with or without the credential.
RemoteCalls ==
    {"get_progress_map", "get_notes", "get_device_stats", "fetch_profile",
     "get_summary", "get_recent"}

GateCalls == {"requires_login_gate", "navigate", "sidebar_lock"}

C21_PollerTerminatesNotifiedOnce ==
    /\ [](\A k \in Pollers :
            /\ poller[k].reads <= Budget(k)
            /\ poller[k].notified <= 1
            /\ poller[k].pc = "done" => poller[k].notified = 1)
    /\ \A k \in Pollers : (poller[k].pc # "idle") ~> (poller[k].pc = "done")

\* Both pollers have terminated, the stats poller on a forced read that
\* raised and the progress poller with its attempts exhausted.
C21_Witness ==
    /\ poller["stats"].pc = "done"
    /\ poller["stats"].reads < STATS_ATTEMPTS
    /\ poller["stats"].first_true = 0
    /\ poller["progress"].pc = "done"
    /\ poller["progress"].reads = PROGRESS_ATTEMPTS
    /\ poller["progress"].first_true = 0

\* A per-lab write made through AppState has returned normally.
AppWriteReturned ==
    /\ last_call.exc = "none"
    /\ \/ last_call.op \in MarkOps \cup {"app_set_notes"}
       \/ last_call.op = "app_submit_flag" /\ last_call.ok

\* C22: after any per-lab write made through AppState (mark_started,
\* mark_attempt, mark_solved, set_notes, an accepted submit_flag) the summary
\* and stats entries of progress_db are empty and AppState's summary and
\* progress-map caches are marked dirty.
C22_WriteInvalidatesCounters ==
    AppWriteReturned =>
        /\ cache.summary = Empty
        /\ cache.stats = Empty
        /\ app_cache.summary_dirty
        /\ app_cache.progress_dirty

\* The cache entry a non-forced read serves and its time to live.
ReadKind(op) ==
    CASE op = "get_device_stats" -> "stats"
      [] op = "get_progress_map" -> "progress_map"
      [] op = "get_summary" -> "summary"
      [] op = "is_device_linked" -> "device_linked"
      [] op = "fetch_profile" -> "profile"

ReadTtl(op) ==
    CASE op = "is_device_linked" -> DEVICE_LINKED_TTL
      [] op = "fetch_profile" -> PROFILE_TTL
      [] OTHER -> CACHE_TTL

CachedReads ==
    {"get_device_stats", "get_progress_map", "get_summary", "is_device_linked",
     "fetch_profile"}

\* What the call recorded in c returned, as the entry e holds it.
Returned(c, e) ==
    IF c.op = "is_device_linked" THEN c.ok = (e.data = "linked") ELSE c.ret = e.data

\* C23: a non-forced cached read (get_device_stats, get_progress_map,
\* get_summary, is_device_linked, fetch_profile) that returns has made no
\* remote call if and only if its entry exists and now - fetched_at <=
\* ttl(kind), and then returns the entry; otherwise it made a remote call,
\* stored the result with the current time and returned it.
C23_CachedReadIffFresh ==
    [][(now' = now /\ last_call'.op \in CachedReads /\ last_call'.exc = "none") =>
          LET e == cache[ReadKind(last_call'.op)]
              served == hit(Pdb, e, ReadTtl(last_call'.op))
          IN /\ served <=> (last_call'.urls = {})
             /\ served => Returned(last_call', e) /\ cache' = cache
             /\ ~served =>
                   /\ cache'[ReadKind(last_call'.op)].ts = now
                   /\ Returned(last_call', cache'[ReadKind(last_call'.op)])]_all_vars

\* C25: the device identity is created once and never regenerated: under
\* any interleaving of connect(), get_device_id(), logout and cache
\* invalidation the device table never holds more than one row, holds
\* exactly one once get_device_id() has returned, and get_device_id() always
\* returns the same identifier.
C25_OneDeviceIdentity ==
    /\ Cardinality(device.rows) <= 1
    /\ Cardinality(device.returned) <= 1
    /\ device.returned # {} => Cardinality(device.rows) = 1

\* C26: while the transient op is starting, stopping or resetting for lab A,
\* a set_runtime_op call that names a different lab B, with any op value
\* including "running", leaves the stored (op, lab id) unchanged and emits
\* no runtime_op_changed.
C26_OtherLabLeavesOp ==
    [][(/\ last_event'.h = "set_runtime_op"
        /\ runtime_op \in Transient
        /\ runtime_op_lab_id # NoLab
        /\ last_event'.lab \notin {NoLab, runtime_op_lab_id})
          => /\ runtime_op' = runtime_op
             /\ runtime_op_lab_id' = runtime_op_lab_id
             /\ RuntimeOpChanged' = <<>>]_all_vars

\* C27: a convergence poller started under one identity cannot make data of
\* that identity visible after an authentication change: once the change has
\* been handled, AppState's progress cache never holds, marked clean, a
\* progress map fetched before the change.
C27_NoOldIdentityAfterAuthChange ==
    ~(app_cache.progress = Outdated /\ ~app_cache.progress_dirty)

\* C28: the two implementations of the access gate agree: whatever the
\* linkage, the stored token and the stored user name, the lock
\* MainWindow.navigate computes equals the lock the sidebar computes, both
\* being linked and not authenticated (no credential stored).
C28_GatesAgree ==
    \A out \in NetOutcomes :
        /\ navigate_locked(device_is_linked(Pdb, out)).ok
              = sidebar_locked(device_is_linked(Pdb, out)).ok
        /\ sidebar_locked(device_is_linked(Pdb, out)).ok
              = (device_is_linked(Pdb, out).ok /\ ~is_logged_in(Pdb))

\* The reads that show personal progress: the stats and the progress blob
\* behind the map, the summary and the recent list.
GatedReads == {"get_device_stats", "get_progress_map", "get_summary", "get_recent"}

\* C29: whenever the device is linked to an account and no credential is
\* stored, get_device_stats returns default stats and the progress blob read
\* returns an empty result, without requesting the device-keyed stats or
\* progress endpoints, in every state reachable through login, logout and
\* the handling of a rejected credential.
C29_LinkedLoggedOutShowsNothing ==
    (/\ last_call.op \in GatedReads
     /\ last_call.exc = "none"
     /\ ~last_call.rejected
     /\ server.linked
     /\ ~is_logged_in(Pdb))
        => /\ last_call.ret = Blank
           /\ last_call.urls \cap {"stats", "progress"} = {}

\* C30: when an accepted start ends, exactly one lab_started event has been
\* recorded for the lab since the start was accepted if it succeeded, and none
\* if it failed.
C30_StartRecordedOnce ==
    last_event.h = "start_done" =>
        started_events[last_event.lab] = IF last_event.res = "ok" THEN 1 ELSE 0

====
